---- MODULE Spec2Model ----
(***************************************************************************)
(* A model of the eSIMDB scraper: src/source/esimdb_scraper.py (fetch,     *)
(* retry, pagination, dedup, normalisation, per-country artifact, parallel *)
(* orchestration) and src/source/run.py (signal handling, exit status).    *)
(*                                                                         *)
(* Four parts of the program are modelled, each with its own               *)
(* specification over the shared variables:                                *)
(*   SpecFetch  get_json, one loop iteration per step                      *)
(*   SpecIter   iter_country_plans, one page per step                      *)
(*   SpecNorm   scrape_country's loop body: validate_plan on one record    *)
(*   SpecMain   run_scraper / main / the process pool / the signal handler *)
(*   SpecFiles  the same run over catalogs whose names vary                *)
(*                                                                         *)
(* Python values are tagged records: [t |-> "None"], [t |-> "int", i |-> n]*)
(* [t |-> "float", f |-> m] (m in millionths), [t |-> "inf"], [t |-> "nan"]*)
(* [t |-> "bigint"] (an int beyond the float range), [t |-> "str", s |-> q]*)
(* (q a sequence of one-character strings), [t |-> "list"], [t |-> "dict", *)
(* ...].                                                                   *)
(***************************************************************************)
EXTENDS Integers, Sequences, FiniteSets, TLC

VARIABLES
    \* get_json
    retries,            \* the retries argument
    attempt,            \* the loop variable of `for attempt in range(retries)`
    gets,               \* the GET requests issued so far, with their outcomes
    gj,                 \* the call's position: running, returned or raised
    \* iter_country_plans
    page,
    number_of_pages,
    seen_plan_ids,
    requested,          \* the page indices passed to get_json, in order
    responses,          \* the records received, in merged order, duplicates included
    declared,           \* numberOfPages of each response received, in order
    yielded,            \* the (plan, provider_name) pairs yielded, in order
    it_pc,              \* "loop", "done" (generator exhausted) or "raised"
    \* scrape_country's loop body
    raw_plan,           \* the record the collector yielded last
    n_yielded,          \* records yielded to the loop so far
    plans_data,         \* the rows appended so far
    \* run_scraper / main
    api_countries,      \* what GET /countries answers in this run
    countries,          \* fetch_countries' result
    fut,                \* one future per submitted country
    submitted,          \* indices passed to executor.submit, in order
    collected,          \* indices as_completed has handed to the loop body
    successful,
    failed,
    total_plans,
    files,              \* artifacts of the output directory: path -> writer
    shutdown_requested,
    main_pc,
    rc,                 \* run_scraper's return value
    exit_status         \* the process's exit status

fetchVars == <<retries, attempt, gets, gj>>
iterVars  == <<page, number_of_pages, seen_plan_ids, requested, responses, declared,
               yielded, it_pc>>
normVars  == <<raw_plan, n_yielded, plans_data>>
mainVars  == <<api_countries, countries, fut, submitted, collected, successful, failed,
               total_plans, files, shutdown_requested, main_pc, rc, exit_status>>
vars      == <<fetchVars, iterVars, normVars, mainVars>>

-----------------------------------------------------------------------------
(* Python values *)

None      == [t |-> "None"]
Absent    == [t |-> "absent"]
PyInt(n)  == [t |-> "int", i |-> n]
PyFloat(m) == [t |-> "float", f |-> m]
PyStr(q)  == [t |-> "str", s |-> q]
PyInf     == [t |-> "inf"]
PyNaN     == [t |-> "nan"]
PyBigInt  == [t |-> "bigint"]
PyList    == [t |-> "list"]

Micro == 1000 * 1000

Ok(v)     == [ok |-> TRUE, val |-> v]
Raise(e)  == [ok |-> FALSE, exc |-> e]

DigitVal(c) ==
    CASE c = "0" -> 0 [] c = "1" -> 1 [] c = "2" -> 2 [] c = "3" -> 3 [] c = "4" -> 4
      [] c = "5" -> 5 [] c = "6" -> 6 [] c = "7" -> 7 [] c = "8" -> 8 [] c = "9" -> 9

IsDigit(c) == c \in {"0", "1", "2", "3", "4", "5", "6", "7", "8", "9"}

RECURSIVE LStrip(_)
LStrip(q) == IF q # <<>> /\ Head(q) = " " THEN LStrip(Tail(q)) ELSE q

RECURSIVE RStrip(_)
RStrip(q) == IF q # <<>> /\ q[Len(q)] = " " THEN RStrip(SubSeq(q, 1, Len(q) - 1)) ELSE q

\* str.strip() (the only whitespace of the model's alphabet is the space)
Strip(q) == RStrip(LStrip(q))

AllDigits(q) == \A k \in 1..Len(q) : IsDigit(q[k])

RECURSIVE DigitsValue(_)
DigitsValue(q) ==
    IF q = <<>> THEN 0 ELSE 10 * DigitsValue(SubSeq(q, 1, Len(q) - 1)) + DigitVal(q[Len(q)])

RECURSIVE Pow10(_)
Pow10(k) == IF k = 0 THEN 1 ELSE 10 * Pow10(k - 1)

\* the sign and the unsigned rest of a stripped numeric literal
SignOf(q) == IF q # <<>> /\ Head(q) = "-" THEN -1 ELSE 1
Unsigned(q) == IF q # <<>> /\ Head(q) \in {"-", "+"} THEN Tail(q) ELSE q

\* int(str): optional sign, then one or more digits; anything else is a ValueError.
\* (Strings of the model hold digits, sign, point, space and the letters a, b, c.)
ParseInt(q) ==
    LET u == Unsigned(Strip(q)) IN
    IF u # <<>> /\ AllDigits(u)
    THEN Ok(PyInt(SignOf(Strip(q)) * DigitsValue(u)))
    ELSE Raise("ValueError")

PointAt(u) == IF \E k \in 1..Len(u) : u[k] = "."
              THEN CHOOSE k \in 1..Len(u) : u[k] = "." /\ \A j \in 1..(k - 1) : u[j] # "."
              ELSE 0

\* float(str): optional sign, digits with at most one point and at least one digit.
\* The result is in millionths; a fraction longer than six digits is outside the model.
ParseFloat(q) ==
    LET u  == Unsigned(Strip(q))
        p  == PointAt(u)
        ip == IF p = 0 THEN u ELSE SubSeq(u, 1, p - 1)
        fp == IF p = 0 THEN <<>> ELSE SubSeq(u, p + 1, Len(u))
    IN
    IF AllDigits(ip) /\ AllDigits(fp) /\ Len(ip) + Len(fp) > 0 /\ Len(fp) <= 6
    THEN Ok(PyFloat(SignOf(Strip(q)) *
                    (DigitsValue(ip) * Micro + DigitsValue(fp) * Pow10(6 - Len(fp)))))
    ELSE Raise("ValueError")

\* float(v)
ToFloat(v) ==
    CASE v.t = "int"    -> Ok(PyFloat(v.i * Micro))
      [] v.t = "float"  -> Ok(v)
      [] v.t = "inf"    -> Ok(v)
      [] v.t = "nan"    -> Ok(v)
      [] v.t = "bool"   -> Ok(PyFloat(IF v.b THEN Micro ELSE 0))
      [] v.t = "bigint" -> Raise("OverflowError")
      [] v.t = "str"    -> ParseFloat(v.s)
      [] OTHER          -> Raise("TypeError")

\* truncation toward zero of a value in millionths
Trunc(m) == IF m >= 0 THEN m \div Micro ELSE -((-m) \div Micro)

\* int(v)
ToInt(v) ==
    CASE v.t = "int"    -> Ok(v)
      [] v.t = "bigint" -> Ok(v)
      [] v.t = "float"  -> Ok(PyInt(Trunc(v.f)))
      [] v.t = "inf"    -> Raise("OverflowError")
      [] v.t = "nan"    -> Raise("ValueError")
      [] v.t = "bool"   -> Ok(PyInt(IF v.b THEN 1 ELSE 0))
      [] v.t = "str"    -> ParseInt(v.s)
      [] OTHER          -> Raise("TypeError")

-----------------------------------------------------------------------------
(* get_json *)

RETRY_ATTEMPTS == 3

MaxRetries == 4

Errors == {"ConnectionError", "HTTPError"}

\* Outcome of one session.get + raise_for_status + resp.json(): a parsed body or a
\* requests.RequestException.
GetOk(body)  == [ok |-> TRUE, body |-> body]
GetFail(e)   == [ok |-> FALSE, err |-> e]

Running      == [kind |-> "running"]
Returned(b)  == [kind |-> "return", value |-> b]
Raised(e)    == [kind |-> "raise", exc |-> e]

IsLastAttemptOffByOne(a, n) == a = n

\* the except branch's test `attempt == retries - 1`
IsLastAttempt(a, n) == a = n - 1

\* One iteration of the for loop: the call's position after the request answered `resp`
\* on attempt a of n.
GetJsonIteration(a, n, resp) ==
    IF resp.ok THEN Returned(resp.body)
    ELSE IF IsLastAttempt(a, n) THEN Raised(resp.err)
    ELSE Running

\* get_json against a server that answers the k-th request with resps[k]: the result
\* and the number of requests issued.
RECURSIVE GetJsonFrom(_, _, _)
GetJsonFrom(a, n, resps) ==
    IF a >= n THEN [result |-> Returned(None), issued |-> a]
    ELSE LET r == GetJsonIteration(a, n, resps[a + 1]) IN
         IF r.kind = "running" THEN GetJsonFrom(a + 1, n, resps)
         ELSE [result |-> r, issued |-> a + 1]

get_json(n, resps) == GetJsonFrom(0, n, resps)


\* a server that fails the first k requests with e and then answers body
FailsThenOk(k, e, body) ==
    [j \in 1..(k + 1) |-> IF j <= k THEN GetFail(e) ELSE GetOk(body)]

FetchBodies == {PyList, None}

GetOutcomes == {GetOk(b) : b \in FetchBodies} \cup {GetFail(e) : e \in Errors}

\* one pass through the body of `for attempt in range(retries)`
GetAttempt ==
    /\ gj.kind = "running"
    /\ attempt < retries
    /\ \E resp \in GetOutcomes :
         LET r == GetJsonIteration(attempt, retries, resp) IN
         /\ gets' = Append(gets, resp)
         \* a loop that runs out without returning or raising returns None
         /\ gj' = IF r.kind = "running" /\ attempt + 1 >= retries THEN Returned(None) ELSE r
         /\ attempt' = IF r.kind = "running" THEN attempt + 1 ELSE attempt
    /\ UNCHANGED <<retries, iterVars, normVars, mainVars>>

-----------------------------------------------------------------------------
(* iter_country_plans *)

MaxPages == 2

MaxRecords == 2

PlanIds == {1, 2}

P1 == PyStr(<<"p", "1">>)

\* the providers table of a page response: empty, or naming provider p1
ProviderTables == {<<>>, <<[id |-> P1, name |-> "Acme"]>>}

\* the plans a page may hold: with an id or without, with a provider id or without
IterPlans ==
    [id : {None} \cup {PyInt(k) : k \in PlanIds}, provider : {P1}]
        \cup {[id |-> None, provider |-> None]}

\* numberOfPages as the first response may declare it
FirstDeclared ==
    {Absent, None, PyStr(<<"x">>), PyStr(<<"2">>), PyInf, PyFloat(1500000)}
        \cup {PyInt(k) : k \in 0..MaxPages}

\* numberOfPages as a later response may declare it
LaterDeclared == {Absent, PyInt(MaxPages + 1)}

SeqsUpTo(S, n) == UNION {[1..k -> S] : k \in 0..n}

\* lines 147-155: the page count read from the first response
ReadNumberOfPages(data) ==
    LET r == ToInt(IF data.numberOfPages = Absent THEN PyInt(1) ELSE data.numberOfPages) IN
    IF r.ok THEN r
    ELSE IF r.exc \in {"TypeError", "ValueError"} THEN Ok(PyInt(1))
    ELSE r

MorePagesOffByOne(n, p) == IF n = None THEN TRUE ELSE p <= n.i + 1

\* the loop test `number_of_pages is None or page <= number_of_pages`
MorePages(n, p) == IF n = None THEN TRUE ELSE p <= n.i

\* the lookup with a providers table that is kept and merged from page to page
ProviderNameCarried(plan, providers_map) ==
    LET tables == {providers_map} \cup {responses[k].providers : k \in 1..Len(responses)}
        entries == UNION {{t[k] : k \in 1..Len(t)} : t \in tables}
    IN  IF plan.provider # None /\ \E e \in entries : e.id = plan.provider
        THEN (CHOOSE e \in entries : e.id = plan.provider).name
        ELSE ""

\* lines 175-178: the provider name of a plan in this page's providers table
ProviderName(plan, providers_map) ==
    IF plan.provider # None /\ \E k \in 1..Len(providers_map) : providers_map[k].id = plan.provider
    THEN (CHOOSE e \in {providers_map[k] : k \in 1..Len(providers_map)} :
              e.id = plan.provider).name
    ELSE ""

\* the merge with the featured list first
CombinedPlansFeaturedFirst(data) == data.featured \o data.plans

\* line 162
CombinedPlans(data) == data.plans \o data.featured

IsDuplicateNever(plan_id, seen) == FALSE

\* lines 169-172: whether the plan is skipped as already seen
IsDuplicate(plan_id, seen) == plan_id # None /\ plan_id \in seen

\* lines 165-180: the for loop over combined_plans, from position k on
RECURSIVE DedupFrom(_, _, _, _, _)
DedupFrom(combined, k, seen, providers_map, out) ==
    IF k > Len(combined) THEN [seen |-> seen, out |-> out]
    ELSE LET plan == combined[k] IN
         IF IsDuplicate(plan.id, seen)
         THEN DedupFrom(combined, k + 1, seen, providers_map, out)
         ELSE DedupFrom(combined, k + 1,
                        IF plan.id # None THEN seen \cup {plan.id} ELSE seen,
                        providers_map,
                        Append(out, [plan |-> plan,
                                     provider_name |-> ProviderName(plan, providers_map)]))

\* records received so far, duplicates included
Received == Len(responses)

\* what get_json may end with when the server would answer `body`: the server fails
\* k requests with e before it answers
FetchResults(body) ==
    {get_json(RETRY_ATTEMPTS, FailsThenOk(k, e, body)).result :
        k \in 0..RETRY_ATTEMPTS, e \in Errors}

\* the records of a page as the response holds them, the plans list and then the
\* featured list, each with its page, its list and the page's providers table
ReceivedFrom(data, p) ==
    [j \in 1..(Len(data.plans) + Len(data.featured)) |->
        [plan |-> (data.plans \o data.featured)[j],
         page |-> p,
         featured |-> j > Len(data.plans),
         providers |-> data.providers]]

\* One pass through the while loop's body in which get_json (line 145) raises: the
\* exception leaves the generator.
IterPageFailed ==
    /\ it_pc = "loop"
    /\ MorePages(number_of_pages, page)
    /\ \E got \in FetchResults(None) : got.kind = "raise"
    /\ requested' = Append(requested, page)
    /\ it_pc' = "raised"
    /\ UNCHANGED <<page, number_of_pages, seen_plan_ids, responses, yielded, declared>>
    /\ UNCHANGED <<fetchVars, normVars, mainVars>>

\* One pass through the while loop's body in which get_json returns the page: the
\* page count on the first pass, the dedup loop with its yields, and the increment.
IterPageFetched ==
    /\ it_pc = "loop"
    /\ MorePages(number_of_pages, page)
    /\ requested' = Append(requested, page)
    /\ \E d \in (IF number_of_pages = None THEN FirstDeclared ELSE LaterDeclared) :
         /\ declared' = Append(declared, d)
         /\ \E pm \in ProviderTables, ps \in SeqsUpTo(IterPlans, MaxRecords - Received) :
              \E fs \in SeqsUpTo(IterPlans, MaxRecords - Received - Len(ps)) :
                LET data == [numberOfPages |-> d, providers |-> pm,
                             plans |-> ps, featured |-> fs]
                    n    == IF number_of_pages = None THEN ReadNumberOfPages(data)
                            ELSE Ok(number_of_pages)
                    dd   == DedupFrom(CombinedPlans(data), 1, seen_plan_ids,
                                      data.providers, <<>>)
                IN  /\ IF ~n.ok
                       THEN \* int() raised what line 150 does not catch
                            /\ it_pc' = "raised"
                            /\ UNCHANGED <<page, number_of_pages, seen_plan_ids,
                                           responses, yielded>>
                       ELSE /\ responses' = responses \o ReceivedFrom(data, page)
                            /\ number_of_pages' = n.val
                            /\ seen_plan_ids' = dd.seen
                            /\ yielded' = yielded \o dd.out
                            /\ page' = page + 1
                            /\ UNCHANGED it_pc
                    \* line 145: this is the body get_json returned
                    /\ Returned(data) \in FetchResults(data)
    /\ UNCHANGED <<fetchVars, normVars, mainVars>>

IterPage == IterPageFailed \/ IterPageFetched

\* the while test fails: the generator is exhausted
IterExhaust ==
    /\ it_pc = "loop"
    /\ ~MorePages(number_of_pages, page)
    /\ it_pc' = "done"
    /\ UNCHANGED <<page, number_of_pages, seen_plan_ids, requested, responses, yielded,
                   declared>>
    /\ UNCHANGED <<fetchVars, normVars, mainVars>>


-----------------------------------------------------------------------------
(* validate_plan and the loop body of scrape_country *)

PyDictUSD(v) == [t |-> "dict", USD |-> v]

\* bool(v)
Truthy(v) ==
    CASE v.t = "None"  -> FALSE
      [] v.t = "str"   -> v.s # <<>>
      [] v.t = "int"   -> v.i # 0
      [] v.t = "float" -> v.f # 0
      [] v.t = "bool"  -> v.b
      [] OTHER         -> TRUE

\* a or b
PyOr(a, b) == IF Truthy(a) THEN a ELSE b

\* str.lower() on the letters the model's strings hold
LowerChar(c) ==
    CASE c = "A" -> "a" [] c = "B" -> "b" [] c = "C" -> "c" [] c = "G" -> "g"
      [] c = "I" -> "i" [] c = "K" -> "k" [] c = "M" -> "m" [] OTHER -> c

Lower(q) == [k \in 1..Len(q) |-> LowerChar(q[k])]

\* The decimal ties x.xx5 that the model's inputs produce and that no double holds
\* exactly: the double nearest to the decimal lies above it for the first set and
\* below it for the second (0.005, 0.025, 4.995; 0.015, 1.005, 2.675).
TiesHeldAbove == {5000, 25000, 4995000}

TiesHeldBelow == {15000, 1005000, 2675000}

\* round(x, 2) of a finite float x >= 0 held in millionths. round() is correctly
\* rounded on the double's exact value: a tie that is exact in binary (a multiple of
\* 1/8) goes to the even hundredth, any other decimal tie goes to the side on which
\* its double lies.
Round2(m) ==
    LET q == m \div 10000
        r == m % 10000
    IN  IF r < 5000 THEN q * 10000
        ELSE IF r > 5000 THEN (q + 1) * 10000
        ELSE CASE m % 125000 = 0     -> IF q % 2 = 0 THEN q * 10000 ELSE (q + 1) * 10000
               [] m \in TiesHeldAbove -> (q + 1) * 10000
               [] m \in TiesHeldBelow -> q * 10000

\* x < 0 for a float x
FloatNegative(x) == x.t = "float" /\ x.f < 0

\* round(x, 2) for a float x that is not negative
RoundFloat(x) == IF x.t = "float" THEN PyFloat(Round2(x.f)) ELSE x

Caught(exc) == exc \in {"TypeError", "ValueError"}

\* lines 192-197: the first non-null price source
PriceSource(plan) ==
    IF plan.usdPromoPrice # None THEN Ok(plan.usdPromoPrice)
    ELSE IF plan.usdPrice # None THEN Ok(plan.usdPrice)
    ELSE LET prices == PyOr(plan.prices, PyDictUSD(None)) IN
         IF prices.t = "dict" THEN Ok(prices.USD) ELSE Raise("AttributeError")

validate_price(plan) ==
    LET src == PriceSource(plan) IN
    IF ~src.ok THEN src
    ELSE IF src.val = None THEN Ok(None)
    ELSE LET f == ToFloat(src.val) IN
         IF ~f.ok THEN (IF Caught(f.exc) THEN Ok(None) ELSE f)
         ELSE IF FloatNegative(f.val) THEN Ok(None)
         ELSE Ok(RoundFloat(f.val))

\* the conversion as the comment of line 259 words it: an unknown unit falls back to
\* the heuristic on the size of the number
CapacityGBHeuristicOnUnknown(capacity, capacity_unit) ==
    IF capacity.t = "nan" THEN None
    ELSE LET thousandth == IF capacity.t = "float" THEN PyFloat(capacity.f \div 1000)
                           ELSE capacity
             unit == IF capacity_unit.t = "str" THEN Lower(capacity_unit.s) ELSE <<>>
         IN
         IF unit \in {<<"m", "b">>, <<"m", "i", "b">>} THEN thousandth
         ELSE IF unit \in {<<"g", "b">>, <<"g", "i", "b">>} THEN capacity
         ELSE IF capacity.t = "float" /\ capacity.f <= 25 * Micro THEN capacity
              ELSE thousandth

\* lines 248-268: the conversion to GB of a float capacity that is not negative;
\* None when the test of line 248 fails (capacity is nan)
CapacityGB(capacity, capacity_unit) ==
    IF capacity.t = "nan" THEN None
    ELSE LET thousandth == IF capacity.t = "float" THEN PyFloat(capacity.f \div 1000)
                           ELSE capacity
         IN
         IF capacity_unit.t = "str"
         THEN LET unit == Lower(capacity_unit.s) IN
              IF unit \in {<<"m", "b">>, <<"m", "i", "b">>} THEN thousandth
              ELSE IF unit \in {<<"g", "b">>, <<"g", "i", "b">>} THEN capacity
              ELSE thousandth
         ELSE IF capacity.t = "float" /\ capacity.f <= 25 * Micro THEN capacity
              ELSE thousandth

validate_data_capacity(plan) ==
    IF plan.capacity = None THEN Ok(None)
    ELSE LET f == ToFloat(plan.capacity) IN
         IF ~f.ok THEN (IF Caught(f.exc) THEN Ok(None) ELSE f)
         ELSE IF FloatNegative(f.val) THEN Ok(None)
         ELSE LET data_gb == CapacityGB(f.val, plan.capacityUnit) IN
              \* `data_gb > 1000` on None is a TypeError, which line 279 catches
              IF data_gb = None THEN Ok(None)
              ELSE Ok(RoundFloat(data_gb))

validate_validity_period(plan) ==
    IF plan.period = None THEN Ok(None)
    ELSE LET n == ToInt(plan.period) IN
         IF ~n.ok THEN (IF Caught(n.exc) THEN Ok(None) ELSE n)
         ELSE IF n.val.t = "int" /\ n.val.i < 0 THEN Ok(None)
         ELSE n

validate_plan_name(plan) ==
    LET plan_name == PyOr(plan.enName, PyOr(plan.name, PyStr(<<>>))) IN
    IF plan_name.t = "str" THEN Ok(PyStr(Strip(plan_name.s))) ELSE Ok(PyStr(<<>>))

\* lines 339-347: the dict display evaluates the validators in this order, and the
\* first exception leaves the function
validate_plan(plan, provider_name, country_name, country_region) ==
    LET nm == validate_plan_name(plan)
        pr == validate_price(plan)
        gb == validate_data_capacity(plan)
        vd == validate_validity_period(plan)
    IN  IF ~nm.ok THEN nm
        ELSE IF ~pr.ok THEN pr
        ELSE IF ~gb.ok THEN gb
        ELSE IF ~vd.ok THEN vd
        ELSE Ok([country |-> country_name, region |-> country_region,
                 provider |-> provider_name, plan_name |-> nm.val,
                 price_usd |-> pr.val, data_gb |-> gb.val, validity_days |-> vd.val])

\* lines 385-391: try validate_plan, append the row; except Exception, skip the plan
AppendRow(rows, result) == IF result.ok THEN Append(rows, result.val) ELSE rows

PromoValues == {None, PyFloat(3500000)}

UsdValues == {None, PyFloat(4990000), PyStr(<<"a", "b", "c">>), PyInt(0), PyInt(-1), PyBigInt}

PricesValues == {None, PyDictUSD(PyStr(<<"4", ".", "5">>)), PyList}

CapacityValues ==
    {None, PyInt(5), PyInt(500), PyInt(-3), PyStr(<<"a", "b", "c">>), PyNaN, PyInf}

UnitValues == {None, PyStr(<<"G", "B">>), PyStr(<<"m", "b">>), PyStr(<<"k", "b">>)}

PeriodValues ==
    {None, PyInt(30), PyInt(-1), PyStr(<<"7">>), PyStr(<<"x">>), PyFloat(30500000), PyInf}

EnNameValues == {None, PyStr(<<" ", "a", "b", " ">>), PyInt(7)}

NameValues == {None, PyStr(<<"c">>)}

RawPlans ==
    [id : {PyInt(1)}, provider : {P1},
     usdPromoPrice : PromoValues, usdPrice : UsdValues, prices : PricesValues,
     capacity : CapacityValues, capacityUnit : UnitValues, period : PeriodValues,
     enName : EnNameValues, name : NameValues]

\* One pass through the body of scrape_country's for loop, on the record the collector
\* yielded.
ScrapeRecord ==
    /\ n_yielded = 0
    /\ raw_plan # None
    /\ n_yielded' = n_yielded + 1
    /\ plans_data' = AppendRow(plans_data, validate_plan(raw_plan, "Acme", "France", "Europe"))
    /\ UNCHANGED <<raw_plan, fetchVars, iterVars, mainVars>>

-----------------------------------------------------------------------------
(* fetch_countries, sanitize_filename *)

UpperChar(c) ==
    CASE c = "a" -> "A" [] c = "b" -> "B" [] c = "c" -> "C" [] c = "g" -> "G"
      [] c = "i" -> "I" [] c = "k" -> "K" [] c = "m" -> "M" [] OTHER -> c

IsLetter(c) == LowerChar(c) # UpperChar(c)

\* str.isalnum() of one character
IsAlnum(c) == IsLetter(c) \/ IsDigit(c)

\* str.title(): a letter is upper-cased after a non-letter and lower-cased after a letter
Title(q) ==
    [k \in 1..Len(q) |->
        IF k > 1 /\ IsLetter(q[k - 1]) THEN LowerChar(q[k]) ELSE UpperChar(q[k])]

\* the region title-cased without the strip()
RegionHumanUntrimmed(region) == IF region.t = "str" THEN PyStr(Title(region.s)) ELSE PyStr(<<>>)

\* lines 108-111
RegionHuman(region) == IF region.t = "str" THEN PyStr(Title(Strip(region.s))) ELSE PyStr(<<>>)

\* lines 99-121: the loop over raw_countries, from position k on
RECURSIVE CountriesFrom(_, _)
CountriesFrom(raw, k) ==
    IF k > Len(raw) THEN <<>>
    ELSE LET c == raw[k] IN
         IF ~Truthy(c.slug) \/ ~Truthy(c.name) THEN CountriesFrom(raw, k + 1)
         ELSE <<[slug |-> c.slug, name |-> c.name, region |-> RegionHuman(c.region)]>>
                  \o CountriesFrom(raw, k + 1)

\* fetch_countries accepting an object that wraps the list, {"countries": [...]}
fetch_countries_unwrapping(data) ==
    IF data.t = "list" THEN Ok(CountriesFrom(data.items, 1))
    ELSE Ok(CountriesFrom(data.countries, 1))

\* lines 94-121, on the parsed body of GET /countries
fetch_countries(data) ==
    IF data.t = "list" THEN Ok(CountriesFrom(data.items, 1)) ELSE Raise("ValueError")

\* line 357
ReplaceSeparators(q) == [k \in 1..Len(q) |-> IF q[k] \in {"/", "\\", " "} THEN "_" ELSE q[k]]

\* line 358
SafeChars(q) == [k \in 1..Len(q) |-> IF IsAlnum(q[k]) \/ q[k] \in {"_", "-"} THEN q[k] ELSE "_"]

sanitize_filename(name) == Lower(SafeChars(ReplaceSeparators(name)))

\* lines 380-381: the artifact's path inside the run's output directory
OutputFile(country) == sanitize_filename(country.name.s) \o <<".", "p", "a", "r", "q", "u", "e", "t">>

-----------------------------------------------------------------------------
(* run_scraper, main, the process pool, signal_handler *)

MAX_WORKERS == 5

MaxCountries == 6

Min(a, b) == IF a <= b THEN a ELSE b

MaxWorkersUncapped(n) == n

\* line 455
MaxWorkersFor(n) == Min(MAX_WORKERS, n)

DigitChars == <<"1", "2", "3", "4", "5", "6", "7", "8", "9">>

\* the k-th item of a catalog whose items are all valid and differ in slug and name
CatalogItem(k) ==
    [slug |-> PyStr(<<"s", DigitChars[k]>>), name |-> PyStr(<<"C", DigitChars[k]>>),
     region |-> PyStr(<<"a", "b">>)]

PyListOf(items) == [t |-> "list", items |-> items]

\* an item fetch_countries skips
NoSlugItem == [slug |-> None, name |-> PyStr(<<"C">>), region |-> None]

\* a JSON object that wraps a list of one valid item
WrappedCatalog == [t |-> "dict", countries |-> <<CatalogItem(1)>>]

\* what GET /countries may answer: something that is no list, a list whose only item
\* is skipped, or a list of n valid items
CatalogResponses ==
    {WrappedCatalog, PyListOf(<<NoSlugItem>>)}
        \cup {PyListOf([k \in 1..n |-> CatalogItem(k)]) : n \in 0..MaxCountries}

\* the number of rows the API holds for the k-th country of the list
PlanCount(k) == k % 3

Pending  == [state |-> "pending",  outcome |-> None]
Working  == [state |-> "running",  outcome |-> None]
Finished(o) == [state |-> "finished", outcome |-> o]

\* what scrape_country ends with: the tuple it returns, or an exception
Returns(k) == [raised |-> FALSE, success |-> TRUE, num_plans |-> k]
Throws     == [raised |-> TRUE]

Indices == 1..Len(countries)

\* the futures of future_to_country that are in state s
InState(s) == {i \in 1..Len(fut) : fut[i].state = s}

RunningCount == Cardinality(InState("running"))

\* run.py line 66 into main line 441: fetch_countries answers or raises
FetchCountries ==
    /\ main_pc = "start"
    /\ \E k \in 0..RETRY_ATTEMPTS, e \in Errors :
         LET got == get_json(RETRY_ATTEMPTS, FailsThenOk(k, e, api_countries)).result
             cs  == IF got.kind = "raise" THEN Raise(got.exc) ELSE fetch_countries(got.value)
         IN  IF cs.ok
             THEN /\ countries' = cs.val
                  /\ main_pc' = "pool"
                  /\ rc' = rc
             ELSE \* run.py lines 77-79
                  /\ rc' = PyInt(1)
                  /\ main_pc' = "returned"
                  /\ countries' = countries
    /\ UNCHANGED <<api_countries, fut, submitted, collected, successful, failed, total_plans,
                   files, shutdown_requested, exit_status>>
    /\ UNCHANGED <<fetchVars, iterVars, normVars>>

\* lines 455-459: ProcessPoolExecutor(max_workers) raises ValueError unless max_workers > 0
CreatePool ==
    /\ main_pc = "pool"
    /\ IF MaxWorkersFor(Len(countries)) > 0
       THEN main_pc' = "submit" /\ rc' = rc
       ELSE main_pc' = "returned" /\ rc' = PyInt(1)
    /\ UNCHANGED <<api_countries, countries, fut, submitted, collected, successful, failed,
                   total_plans, files, shutdown_requested, exit_status>>
    /\ UNCHANGED <<fetchVars, iterVars, normVars>>

\* lines 460-463: the dict comprehension submits the next country of the list
Submit ==
    /\ main_pc = "submit"
    /\ IF Len(fut) < Len(countries)
       THEN /\ fut' = Append(fut, Pending)
            /\ submitted' = Append(submitted, Len(fut) + 1)
            /\ main_pc' = main_pc
       ELSE /\ main_pc' = "collect"
            /\ UNCHANGED <<fut, submitted>>
    /\ UNCHANGED <<api_countries, countries, collected, successful, failed, total_plans,
                   files, shutdown_requested, rc, exit_status>>
    /\ UNCHANGED <<fetchVars, iterVars, normVars>>

\* an idle worker process takes the oldest queued work item
WorkerStart(i) ==
    /\ i \in 1..Len(fut)
    /\ fut[i].state = "pending"
    /\ \A j \in 1..(i - 1) : fut[j].state # "pending"
    /\ RunningCount < MaxWorkersFor(Len(countries))
    /\ fut' = [fut EXCEPT ![i] = Working]
    /\ UNCHANGED <<api_countries, countries, submitted, collected, successful, failed,
                   total_plans, files, shutdown_requested, main_pc, rc, exit_status>>
    /\ UNCHANGED <<fetchVars, iterVars, normVars>>

\* lines 393-425: no file for an empty batch, else the batch written to output_file
WriteArtifact(fs, i, k) ==
    IF k = 0 THEN fs ELSE (OutputFile(countries[i]) :> [writer |-> i, rows |-> k]) @@ fs

\* scrape_country ends in its worker: it raised, or it wrote its rows and returned
WorkerFinish(i) ==
    /\ i \in 1..Len(fut)
    /\ fut[i].state = "running"
    /\ \/ /\ fut' = [fut EXCEPT ![i] = Finished(Throws)]
          /\ files' = files
       \/ /\ fut' = [fut EXCEPT ![i] = Finished(Returns(PlanCount(i)))]
          /\ files' = WriteArtifact(files, i, PlanCount(i))
    /\ UNCHANGED <<api_countries, countries, submitted, collected, successful, failed,
                   total_plans, shutdown_requested, main_pc, rc, exit_status>>
    /\ UNCHANGED <<fetchVars, iterVars, normVars>>

\* The record the API holds for a plan of the traversal: the keys a plan of IterPlans
\* lacks are absent (dict.get gives None) but for a price and a period; plan 2 has the
\* period 1e999, on which validate_plan raises.
RawPlanOf(plan) ==
    [id |-> plan.id, provider |-> plan.provider,
     usdPromoPrice |-> None, usdPrice |-> PyFloat(4990000), prices |-> None,
     capacity |-> None, capacityUnit |-> None,
     period |-> IF plan.id = PyInt(2) THEN PyInf ELSE PyInt(30),
     enName |-> None, name |-> None]

\* scrape_country runs in the worker of future 1
Scraping == Len(fut) = 1 /\ fut[1].state = "running"

\* lines 384-391: the body of the for loop on the next record the generator yielded
ScrapeYielded ==
    /\ Scraping
    /\ n_yielded < Len(yielded)
    /\ LET rec == yielded[n_yielded + 1] IN
         /\ raw_plan' = rec.plan
         /\ plans_data' = AppendRow(plans_data,
                                    validate_plan(RawPlanOf(rec.plan), rec.provider_name,
                                                  countries[1].name, countries[1].region))
    /\ n_yielded' = n_yielded + 1
    /\ UNCHANGED <<fetchVars, iterVars, mainVars>>

\* line 384: the for loop asks the generator for the next record once the body is
\* done with the last one; the generator goes through its while loop once more
ScrapeNext ==
    /\ Scraping
    /\ n_yielded = Len(yielded)
    /\ (IterPage \/ IterExhaust)

\* get_json raised inside the generator and with partial results kept: the rows
\* collected so far are written before the exception goes on
ScrapeRaiseFlushing ==
    /\ Scraping
    /\ it_pc = "raised"
    /\ fut' = [fut EXCEPT ![1] = Finished(Throws)]
    /\ files' = WriteArtifact(files, 1, Len(plans_data))
    /\ UNCHANGED <<api_countries, countries, submitted, collected, successful, failed,
                   total_plans, shutdown_requested, main_pc, rc, exit_status>>
    /\ UNCHANGED <<fetchVars, iterVars, normVars>>

\* line 384: the exception raised inside the generator leaves scrape_country
ScrapeRaise ==
    /\ Scraping
    /\ it_pc = "raised"
    /\ fut' = [fut EXCEPT ![1] = Finished(Throws)]
    /\ UNCHANGED <<api_countries, countries, submitted, collected, successful, failed,
                   total_plans, files, shutdown_requested, main_pc, rc, exit_status>>
    /\ UNCHANGED <<fetchVars, iterVars, normVars>>

\* lines 393-425: the generator is exhausted; (True, 0) without a file, or the batch
\* written and (True, len(df))
ScrapeReturn ==
    /\ Scraping
    /\ it_pc = "done"
    /\ n_yielded = Len(yielded)
    /\ fut' = [fut EXCEPT ![1] = Finished(Returns(Len(plans_data)))]
    /\ files' = WriteArtifact(files, 1, Len(plans_data))
    /\ UNCHANGED <<api_countries, countries, submitted, collected, successful, failed,
                   total_plans, shutdown_requested, main_pc, rc, exit_status>>
    /\ UNCHANGED <<fetchVars, iterVars, normVars>>

CountedForgetsFailure(o, c) ==
    IF o.raised THEN c
    ELSE [c EXCEPT !.successful = @ + 1, !.total_plans = @ + o.num_plans]

\* lines 470-481: the counters after the body of the as_completed loop on outcome o
Counted(o, c) ==
    IF o.raised THEN [c EXCEPT !.failed = @ + 1]
    ELSE [c EXCEPT !.successful = IF o.success THEN @ + 1 ELSE @,
                   !.failed = IF o.success THEN @ ELSE @ + 1,
                   !.total_plans = @ + o.num_plans]

\* the loop body without its try/except: future.result() re-raises the worker's
\* exception out of main, and run_scraper reports the failure
CollectUnguarded(i) ==
    /\ main_pc = "collect"
    /\ i \in 1..Len(fut)
    /\ i \notin collected
    /\ fut[i].state = "finished"
    /\ IF fut[i].outcome.raised
       THEN /\ main_pc' = "returned"
            /\ rc' = PyInt(1)
            /\ UNCHANGED <<successful, failed, total_plans, collected>>
       ELSE /\ successful' = successful + 1
            /\ total_plans' = total_plans + fut[i].outcome.num_plans
            /\ collected' = collected \cup {i}
            /\ UNCHANGED <<failed, main_pc, rc>>
    /\ UNCHANGED <<api_countries, countries, fut, submitted, files, shutdown_requested,
                   exit_status>>
    /\ UNCHANGED <<fetchVars, iterVars, normVars>>

\* lines 465-481: as_completed hands a finished future to the loop body
Collect(i) ==
    /\ main_pc = "collect"
    /\ i \in 1..Len(fut)
    /\ i \notin collected
    /\ fut[i].state = "finished"
    /\ LET c == Counted(fut[i].outcome, [successful |-> successful, failed |-> failed,
                                          total_plans |-> total_plans])
       IN  /\ successful' = c.successful
           /\ failed' = c.failed
           /\ total_plans' = c.total_plans
    /\ collected' = collected \cup {i}
    /\ UNCHANGED <<api_countries, countries, fut, submitted, files, shutdown_requested,
                   main_pc, rc, exit_status>>
    /\ UNCHANGED <<fetchVars, iterVars, normVars>>

\* run.py lines 68-71: the code run_scraper returns after scraper() returned
ReturnCode(flag) == IF flag THEN PyInt(130) ELSE PyInt(0)

\* as_completed is exhausted, the pool is shut down, main returns, run_scraper returns
MainReturn ==
    /\ main_pc = "collect"
    /\ collected = 1..Len(fut)
    /\ rc' = ReturnCode(shutdown_requested)
    /\ main_pc' = "returned"
    /\ UNCHANGED <<api_countries, countries, fut, submitted, collected, successful, failed,
                   total_plans, files, shutdown_requested, exit_status>>
    /\ UNCHANGED <<fetchVars, iterVars, normVars>>

\* run.py lines 82-83: the status the interpreter exits with after `run_scraper()`,
\* whose return value the statement drops
ExitStatusFor(code) == PyInt(0)

ProcessExit ==
    /\ main_pc = "returned"
    /\ exit_status' = ExitStatusFor(rc)
    /\ main_pc' = "exited"
    /\ UNCHANGED <<api_countries, countries, fut, submitted, collected, successful, failed,
                   total_plans, files, shutdown_requested, rc>>
    /\ UNCHANGED <<fetchVars, iterVars, normVars>>

\* run.py lines 19-35: SIGTERM or SIGINT arrives while the process runs
SignalHandler ==
    /\ main_pc \notin {"idle", "exited"}
    /\ shutdown_requested' = TRUE
    /\ UNCHANGED <<api_countries, countries, fut, submitted, collected, successful, failed,
                   total_plans, files, main_pc, rc, exit_status>>
    /\ UNCHANGED <<fetchVars, iterVars, normVars>>

-----------------------------------------------------------------------------
(* Specifications *)

FetchIdle == retries = 0 /\ attempt = 0 /\ gets = <<>> /\ gj = Running

IterIdle ==
    /\ page = 1 /\ number_of_pages = None /\ seen_plan_ids = {} /\ requested = <<>>
    /\ responses = <<>> /\ declared = <<>> /\ yielded = <<>> /\ it_pc = "idle"

NormIdle == raw_plan = None /\ n_yielded = 0 /\ plans_data = <<>>

MainIdle ==
    /\ api_countries = None /\ countries = <<>> /\ fut = <<>> /\ submitted = <<>>
    /\ collected = {} /\ successful = 0 /\ failed = 0 /\ total_plans = 0
    /\ files = <<>> /\ shutdown_requested = FALSE /\ main_pc = "idle"
    /\ rc = None /\ exit_status = None

\* get_json called with retries = N
InitFetch ==
    /\ retries \in 1..MaxRetries
    /\ attempt = 0 /\ gets = <<>> /\ gj = Running
    /\ IterIdle /\ NormIdle /\ MainIdle

NextFetch == GetAttempt

SpecFetch == InitFetch /\ [][NextFetch]_vars

\* iter_country_plans called for one country, the consumer draining it
InitIter ==
    /\ page = 1 /\ number_of_pages = None /\ seen_plan_ids = {} /\ requested = <<>>
    /\ responses = <<>> /\ declared = <<>> /\ yielded = <<>> /\ it_pc = "loop"
    /\ FetchIdle /\ NormIdle /\ MainIdle

NextIter == IterPage \/ IterExhaust

SpecIter == InitIter /\ [][NextIter]_vars

\* the consumer keeps asking for the next record, and every request is answered or
\* times out, so the traversal keeps moving while it can
FairSpecIter == SpecIter /\ WF_vars(NextIter)


\* scrape_country's loop receives one record from the collector
InitNorm ==
    /\ raw_plan \in RawPlans /\ n_yielded = 0 /\ plans_data = <<>>
    /\ FetchIdle /\ IterIdle /\ MainIdle

NextNorm == ScrapeRecord

SpecNorm == InitNorm /\ [][NextNorm]_vars


\* run_scraper has installed the handlers and is about to call main
InitMain ==
    /\ api_countries \in CatalogResponses
    /\ countries = <<>> /\ fut = <<>> /\ submitted = <<>> /\ collected = {}
    /\ successful = 0 /\ failed = 0 /\ total_plans = 0 /\ files = <<>>
    /\ shutdown_requested = FALSE /\ main_pc = "start" /\ rc = None /\ exit_status = None
    /\ FetchIdle /\ IterIdle /\ NormIdle

ProgramNext ==
    \/ FetchCountries
    \/ CreatePool
    \/ Submit
    \/ \E i \in InState("pending") : WorkerStart(i)
    \/ \E i \in InState("running") : WorkerFinish(i)
    \/ \E i \in InState("finished") \ collected : Collect(i)
    \/ MainReturn
    \/ ProcessExit

NextMain == ProgramNext \/ SignalHandler

SpecMain == InitMain /\ [][NextMain]_vars

\* every request is answered or times out, every worker process runs, and the main
\* process runs: the program's own steps are taken while any is possible (a signal
\* may or may not arrive)
FairSpecMain == SpecMain /\ WF_vars(ProgramNext)


\* the same run over a catalog of two countries whose names vary
NameChars == {"A", "a", " ", "/", "."}

MaxNameLen == 2

CountryNames == UNION {[1..k -> NameChars] : k \in 1..MaxNameLen}

InitFiles ==
    /\ api_countries \in
         {PyListOf(<<[slug |-> PyStr(<<"s", "1">>), name |-> PyStr(a), region |-> None],
                     [slug |-> PyStr(<<"s", "2">>), name |-> PyStr(b), region |-> None]>>) :
              a \in CountryNames, b \in CountryNames}
    /\ countries = <<>> /\ fut = <<>> /\ submitted = <<>> /\ collected = {}
    /\ successful = 0 /\ failed = 0 /\ total_plans = 0 /\ files = <<>>
    /\ shutdown_requested = FALSE /\ main_pc = "start" /\ rc = None /\ exit_status = None
    /\ FetchIdle /\ IterIdle /\ NormIdle

SpecFiles == InitFiles /\ [][NextMain]_vars

\* scrape_country's loop receives a record whose capacity and capacityUnit vary. The
\* capacities are whole thousandths, so that the division by 1000 is exact in
\* millionths; 5, 15, 25 and 125 MB are decimal ties.
CapacityCases ==
    {None, PyInt(0), PyInt(5), PyInt(15), PyInt(25), PyInt(26), PyInt(125), PyInt(500),
     PyInt(1500),
     PyFloat(500000), PyFloat(12340000), PyFloat(25001000), PyStr(<<"5", "0", "0">>),
     PyInt(-3), PyFloat(-500000)}

UnitCases ==
    {None, PyStr(<<"g", "b">>), PyStr(<<"G", "B">>), PyStr(<<"G", "i", "B">>),
     PyStr(<<"m", "b">>), PyStr(<<"M", "B">>), PyStr(<<"M", "i", "B">>),
     PyStr(<<"k", "b">>), PyStr(<<>>)}

InitCapacity ==
    /\ raw_plan \in
         [id : {PyInt(1)}, provider : {P1}, usdPromoPrice : {None},
          usdPrice : {PyFloat(4990000)}, prices : {None},
          capacity : CapacityCases, capacityUnit : UnitCases, period : {PyInt(30)},
          enName : {None}, name : {PyStr(<<"c">>)}]
    /\ n_yielded = 0 /\ plans_data = <<>>
    /\ FetchIdle /\ IterIdle /\ MainIdle

SpecCapacity == InitCapacity /\ [][NextNorm]_vars

\* scrape_country's loop receives a record whose three price sources vary
PromoCases == {None, PyFloat(3500000), PyInt(0), PyInt(-1), PyStr(<<"a", "b", "c">>)}

UsdCases ==
    {None, PyFloat(4990000), PyFloat(2675000), PyInt(0), PyFloat(-500000),
     PyStr(<<"a", "b", "c">>), PyList, PyBigInt}

PricesCases ==
    {None, PyDictUSD(None), PyDictUSD(PyStr(<<"4", ".", "5">>)), PyDictUSD(PyInt(-2)),
     PyDictUSD(PyInt(7)), PyList}

InitPrice ==
    /\ raw_plan \in
         [id : {PyInt(1)}, provider : {P1}, usdPromoPrice : PromoCases,
          usdPrice : UsdCases, prices : PricesCases,
          capacity : {PyInt(5)}, capacityUnit : {None}, period : {PyInt(30)},
          enName : {None}, name : {PyStr(<<"c">>)}]
    /\ n_yielded = 0 /\ plans_data = <<>>
    /\ FetchIdle /\ IterIdle /\ MainIdle

SpecPrice == InitPrice /\ [][NextNorm]_vars

\* scrape_country called in a worker for one country
InitScrape ==
    /\ page = 1 /\ number_of_pages = None /\ seen_plan_ids = {} /\ requested = <<>>
    /\ responses = <<>> /\ declared = <<>> /\ yielded = <<>> /\ it_pc = "loop"
    /\ raw_plan = None /\ n_yielded = 0 /\ plans_data = <<>>
    /\ api_countries = None /\ countries = CountriesFrom(<<CatalogItem(1)>>, 1)
    /\ fut = <<Working>> /\ submitted = <<1>>
    /\ collected = {} /\ successful = 0 /\ failed = 0 /\ total_plans = 0
    /\ files = <<>> /\ shutdown_requested = FALSE /\ main_pc = "idle"
    /\ rc = None /\ exit_status = None
    /\ FetchIdle

NextScrape == ScrapeYielded \/ ScrapeNext \/ ScrapeRaise \/ ScrapeReturn

SpecScrape == InitScrape /\ [][NextScrape]_vars

\* the same run over catalogs whose items vary in what fetch_countries looks at: slug
\* and name null, empty or a string, region null, a number or a string to clean
MaxCatalogLen == 2

CatalogRegions ==
    {None, PyInt(1), PyStr(<<" ", "a", "B", " ">>), PyStr(<<"a", "-", "b", " ", "c">>)}

CatalogItems ==
    {[slug |-> sl, name |-> PyStr(<<"C", "1">>), region |-> None] : sl \in {None, PyStr(<<>>)}}
        \cup {[slug |-> PyStr(<<"s", "1">>), name |-> nm, region |-> None] :
                  nm \in {None, PyStr(<<>>)}}
        \cup {[slug |-> PyStr(<<"s", "1">>), name |-> PyStr(<<"C", "1">>), region |-> rg] :
                  rg \in CatalogRegions}

InitCatalog ==
    /\ api_countries \in {PyListOf(q) : q \in SeqsUpTo(CatalogItems, MaxCatalogLen)}
    /\ countries = <<>> /\ fut = <<>> /\ submitted = <<>> /\ collected = {}
    /\ successful = 0 /\ failed = 0 /\ total_plans = 0 /\ files = <<>>
    /\ shutdown_requested = FALSE /\ main_pc = "start" /\ rc = None /\ exit_status = None
    /\ FetchIdle /\ IterIdle /\ NormIdle

SpecCatalog == InitCatalog /\ [][NextMain]_vars

-----------------------------------------------------------------------------
(* Claims *)

IdCount(records, id) == Cardinality({k \in 1..Len(records) : records[k].plan.id = id})

\* C1: in one traversal, no non-null plan id is yielded twice, wherever its duplicates
\* were received (one list, plans and featured, different pages), and every record
\* without an id that was received is yielded.
C1_DedupPerTraversal ==
    /\ \A k \in PlanIds : IdCount(yielded, PyInt(k)) <= 1
    /\ IdCount(yielded, None) = IdCount(responses, None)

\* a traversal that ended after receiving the same id on two pages, and a record
\* without an id
C1_Witness ==
    /\ it_pc = "done"
    /\ \E a, b \in 1..Len(responses) :
         /\ responses[a].plan.id # None
         /\ responses[a].plan.id = responses[b].plan.id
         /\ responses[a].page < responses[b].page
    /\ Len(yielded) < Len(responses)

\* C2: get_json with retries = N issues at most N requests, returns the body of the
\* first request that succeeds and issues none after it, and raises only after N
\* failures, with the error of the last; two failures then a success return normally
\* under N = 3.
C2_RetryBudget ==
    /\ Len(gets) <= retries
    /\ gj.kind = "return" =>
         /\ Len(gets) >= 1
         /\ gets[Len(gets)].ok
         /\ gj.value = gets[Len(gets)].body
         /\ \A k \in 1..(Len(gets) - 1) : ~gets[k].ok
    /\ gj.kind = "raise" =>
         /\ Len(gets) = retries
         /\ \A k \in 1..Len(gets) : ~gets[k].ok
         /\ gj.exc = gets[retries].err
    /\ (Len(gets) >= 1 /\ gets[Len(gets)].ok) => gj.kind = "return"
    /\ (Len(gets) = retries /\ \A k \in 1..Len(gets) : ~gets[k].ok) => gj.kind = "raise"

\* the default budget, two failures and then a success
C2_Witness ==
    /\ retries = RETRY_ATTEMPTS
    /\ Len(gets) = 3
    /\ ~gets[1].ok /\ ~gets[2].ok /\ gets[3].ok
    /\ gj.kind = "return"


MainDone == main_pc \in {"returned", "exited"}

RaisedSet == {i \in 1..Len(fut) : fut[i].state = "finished" /\ fut[i].outcome.raised}

ReturnedSet == {i \in 1..Len(fut) : fut[i].state = "finished" /\ ~fut[i].outcome.raised}

\* C3: when a country's scrape_country raised, main still returns normally, every
\* country of the list has run to completion and been counted, the ones that raised
\* as failed and the others as successful.
C3_FailureIsolated ==
    (MainDone /\ RaisedSet # {}) =>
        /\ rc \in {PyInt(0), PyInt(130)}
        /\ Len(fut) = Len(countries)
        /\ \A j \in 1..Len(fut) : fut[j].state = "finished" /\ j \in collected
        /\ failed = Cardinality(RaisedSet)
        /\ successful = Cardinality(ReturnedSet)

\* a finished run in which one country raised and another returned rows
C3_Witness ==
    /\ MainDone
    /\ RaisedSet # {}
    /\ \E j \in ReturnedSet : fut[j].outcome.num_plans > 0
    /\ failed >= 1 /\ successful >= 1

StartedSet == {i \in 1..Len(fut) : fut[i].state # "pending"}

\* C4: once the cancellation flag is set, no pipeline that had not started is started.
C4_NoStartAfterCancel == [][shutdown_requested => StartedSet' \subseteq StartedSet]_vars

IsPermutationOfIndices(q) ==
    /\ Len(q) = Len(countries)
    /\ \A i \in 1..Len(countries) : Cardinality({k \in 1..Len(q) : q[k] = i}) = 1

\* C5: at most min(5, n) pipelines execute at any moment; no country is submitted
\* twice and, once submission is over, each has been submitted exactly once; the run
\* eventually ends, and when it ends over n >= 1 countries every country has an
\* outcome; an outcome, once there, never changes.
C5_BoundedPool ==
    /\ [](RunningCount <= Min(MAX_WORKERS, Len(countries)))
    /\ [](\A a, b \in 1..Len(submitted) : a # b => submitted[a] # submitted[b])
    /\ [](main_pc = "collect" => IsPermutationOfIndices(submitted))
    /\ <>MainDone
    /\ [](MainDone /\ Len(countries) >= 1 =>
             (Len(fut) = Len(countries) /\ \A i \in 1..Len(fut) : fut[i].state = "finished"))
    /\ [][\A i \in 1..Len(fut) : fut[i].state = "finished" => fut'[i] = fut[i]]_vars

\* the pool is full while a country waits
C5_Witness ==
    /\ Len(countries) > MAX_WORKERS
    /\ RunningCount = MAX_WORKERS
    /\ \E i \in 1..Len(fut) : fut[i].state = "pending"

\* the page count the first response declares, 1 when absent or unparseable or < 1
PageLimit(d) ==
    LET r == ToInt(IF d = Absent THEN PyInt(1) ELSE d) IN
    IF r.ok THEN (IF r.val.i >= 1 THEN r.val.i ELSE 1) ELSE 1

Parseable(d) == d # Absent /\ ToInt(d).ok

\* C6: pages are requested as 1, 2, 3, ... with none skipped or repeated; the page
\* count is the one the first response declared, whatever later responses declare,
\* and no page above max(1, N) is requested; exactly one page is requested when the
\* count is absent or unparseable; a drained traversal has requested every page up
\* to the limit; and the traversal ends.
C6_PageOrder ==
    /\ [](/\ requested = [k \in 1..Len(requested) |-> k]
          /\ Len(requested) <= (IF declared = <<>> THEN 1 ELSE PageLimit(declared[1]))
          /\ (declared # <<>> /\ ~Parseable(declared[1])) => Len(requested) = 1
          /\ it_pc = "done" =>
                (declared # <<>> /\ Len(requested) = PageLimit(declared[1])))
    /\ <>(it_pc \in {"done", "raised"})

\* a drained two-page traversal whose second response declared a larger page count
C6_Witness ==
    /\ it_pc = "done"
    /\ Len(declared) = 2
    /\ declared[1] = PyInt(2)
    /\ declared[2] = PyInt(MaxPages + 1)
    /\ requested = <<1, 2>>

\* C7: the record the collector yielded gives one row, whatever its fields hold:
\* validate_plan raises nothing and the batch has one row per yielded record.
C7_OneRowPerRecord ==
    n_yielded = 1 =>
        /\ validate_plan(raw_plan, "Acme", "France", "Europe").ok
        /\ Len(plans_data) = n_yielded

\* C8: a country that returned rows owns its artifact: the file at its output path
\* holds the rows it wrote, not another country's.
C8_OwnArtifact ==
    \A i \in ReturnedSet :
        fut[i].outcome.num_plans >= 1 =>
            /\ OutputFile(countries[i]) \in DOMAIN files
            /\ files[OutputFile(countries[i])].writer = i

\* C9: the process exits with the code run_scraper computed: 0 for a completed run,
\* 1 for a run that raised, 130 for a run completed after a cancellation signal.
C9_ExitStatus == main_pc = "exited" => exit_status = rc

RECURSIVE SumReturned(_)
SumReturned(k) ==
    IF k = 0 THEN 0
    ELSE SumReturned(k - 1) + (IF k \in ReturnedSet THEN fut[k].outcome.num_plans ELSE 0)

\* C10: when main has finished over n >= 1 countries, successful + failed = n, the
\* countries that raised are the failed ones, and total_plans is the sum of the row
\* counts of the countries that returned.
C10_Counters ==
    (MainDone /\ Len(countries) >= 1) =>
        /\ successful + failed = Len(countries)
        /\ failed = Cardinality(RaisedSet)
        /\ total_plans = SumReturned(Len(fut))

\* a finished run with a failure and rows from several countries
C10_Witness ==
    /\ MainDone
    /\ Len(countries) >= 3
    /\ RaisedSet # {}
    /\ Cardinality({i \in ReturnedSet : fut[i].outcome.num_plans > 0}) >= 2
    /\ total_plans >= 3

\* C11: when GET /countries answers something that is no list, no pipeline is ever
\* submitted or started, no file is written, and once fetch_countries has run the run
\* is over with run_scraper's code 1.
C11_CatalogNotList ==
    api_countries.t = "dict" =>
        /\ fut = <<>> /\ submitted = <<>> /\ files = <<>> /\ countries = <<>>
        /\ main_pc # "start" => (MainDone /\ rc = PyInt(1))

\* run_scraper has returned after /countries answered an object
C11_Witness == api_countries = WrappedCatalog /\ main_pc = "returned" /\ rc = PyInt(1)

\* C12: while the run is unfinished and a first signal is pending (the flag is set),
\* the handler run for a second signal ends the process at once: no run of the handler
\* from such a state leaves the process alive.
C12_SecondSignalTerminates ==
    (shutdown_requested /\ ~MainDone) => ~ENABLED (SignalHandler /\ main_pc' # "exited")

NonEmptyStr(v) == v.t = "str" /\ Len(v.s) >= 1

\* the positions of the response's items whose slug and name are both non-empty
KeptItems == {k \in 1..Len(api_countries.items) :
                 NonEmptyStr(api_countries.items[k].slug)
                     /\ NonEmptyStr(api_countries.items[k].name)}

\* the j-th of them in the order of the response
NthKept(j) == CHOOSE k \in KeptItems : Cardinality({i \in KeptItems : i <= k}) = j

\* r is q without its leading and trailing spaces, with every letter that starts a
\* run of letters in upper case and every other letter in lower case
IsTitleOfTrimmed(q, r) ==
    \E a \in 0..Len(q), b \in 0..Len(q) :
        /\ a + b <= Len(q)
        /\ \A k \in 1..a : q[k] = " "
        /\ \A k \in (Len(q) - b + 1)..Len(q) : q[k] = " "
        /\ Len(r) = Len(q) - a - b
        /\ Len(r) >= 1 => (q[a + 1] # " " /\ q[Len(q) - b] # " ")
        /\ \A k \in 1..Len(r) :
              /\ LowerChar(r[k]) = LowerChar(q[a + k])
              /\ IsLetter(r[k]) =>
                    ((r[k] = UpperChar(r[k])) <=> (k = 1 \/ ~IsLetter(r[k - 1])))

\* C13: after fetch_countries on a list, countries holds exactly the items whose slug
\* and name are both non-empty, in the order of the response, repeated items
\* included, slug and name as received; the region is the trimmed, title-cased input
\* when that is a string and the empty string otherwise.
C13_CountriesListed ==
    (main_pc \in {"pool", "submit", "collect"}) =>
        /\ Len(countries) = Cardinality(KeptItems)
        /\ \A j \in 1..Len(countries) :
              LET c == api_countries.items[NthKept(j)] IN
              /\ countries[j].slug = c.slug
              /\ countries[j].name = c.name
              /\ countries[j].region.t = "str"
              /\ IF c.region.t = "str"
                 THEN IsTitleOfTrimmed(c.region.s, countries[j].region.s)
                 ELSE countries[j].region.s = <<>>

\* a response of a skipped item and then an item whose region needs cleaning, and one
\* of the same item twice
C13_Witness ==
    /\ main_pc = "pool"
    /\ Len(api_countries.items) = 2
    /\ \/ /\ KeptItems = {2}
          /\ api_countries.items[2].region = PyStr(<<" ", "a", "B", " ">>)
          /\ countries[1].region = PyStr(<<"A", "b">>)
       \/ /\ api_countries.items[1] = api_countries.items[2]
          /\ Len(countries) = 2
          /\ countries[1].region = PyStr(<<"A", "-", "B", " ", "C">>)

\* the number a numeric capacity of CapacityCases stands for, in millionths
CapacityMicro(c) ==
    CASE c.t = "int"   -> c.i * Micro
      [] c.t = "float" -> c.f
      [] c.t = "str"   -> 500 * Micro

\* r is a float of two decimals nearest to num/den millionths (den divides num)
RoundedTo2(r, num, den) ==
    /\ r.t = "float"
    /\ r.f % 10000 = 0
    /\ num % den = 0
    /\ r.f - (num \div den) <= 5000
    /\ (num \div den) - r.f <= 5000

GbTags == {PyStr(<<"g", "b">>), PyStr(<<"G", "B">>), PyStr(<<"G", "i", "B">>)}

UsdEntry(prices) == IF prices.t = "dict" THEN prices.USD ELSE None

\* the first non-null of the three price sources
SelectedPrice(plan) ==
    IF plan.usdPromoPrice # None THEN plan.usdPromoPrice
    ELSE IF plan.usdPrice # None THEN plan.usdPrice
    ELSE UsdEntry(plan.prices)

\* the numbers among the price values of PromoCases, UsdCases and PricesCases
IsNumber(v) == v.t \in {"int", "float", "bigint"} \/ v = PyStr(<<"4", ".", "5">>)

\* the number v stands for, in millionths (not for an integer beyond the floats, of
\* which the claim's formula asks only that the row is there)
PriceMicro(v) ==
    CASE v.t = "int"   -> v.i * Micro
      [] v.t = "float" -> v.f
      [] v.t = "str"   -> 4500000

\* C15: the record gives a row whose price_usd comes from the first non-null of
\* usdPromoPrice, usdPrice and prices['USD']: null when all three are null, null when
\* the selected value is negative or not a number (no later source is tried), and
\* the selected number rounded to 2 decimals otherwise, zero included.
C15_PriceSelection ==
    n_yielded = 1 =>
        /\ Len(plans_data) = 1
        /\ LET v == SelectedPrice(raw_plan)
               r == plans_data[1].price_usd
           IN  IF v = None \/ ~IsNumber(v) THEN r = None
               ELSE IF v.t = "bigint" THEN r = None \/ r.t = "float"
               ELSE IF PriceMicro(v) < 0 THEN r = None
               ELSE RoundedTo2(r, PriceMicro(v), 1)

\* the rows the records yielded so far give: plan 2 is the record that gives none
RowsOfYielded == Cardinality({k \in 1..Len(yielded) : yielded[k].plan.id # PyInt(2)})

\* C16: scrape_country writes nothing before the traversal has ended; when the
\* traversal ends with no row it returns (True, 0) and there is no file; when it ends
\* with k >= 1 rows it returns (True, k) and there is one file, of k rows, at the
\* country's path; when a page fetch raises it raises and there is no file, whatever
\* rows the earlier pages gave.
C16_WriteAfterTraversal ==
    /\ fut[1].state = "running" => files = <<>>
    /\ it_pc = "raised" => files = <<>>
    /\ (fut[1].state = "finished" /\ fut[1].outcome.raised) => it_pc = "raised"
    /\ (fut[1].state = "finished" /\ ~fut[1].outcome.raised) =>
          /\ it_pc = "done"
          /\ fut[1].outcome.success
          /\ fut[1].outcome.num_plans = RowsOfYielded
          /\ Len(plans_data) = RowsOfYielded
          /\ IF RowsOfYielded = 0 THEN files = <<>>
             ELSE /\ DOMAIN files = {OutputFile(countries[1])}
                  /\ files[OutputFile(countries[1])].rows = RowsOfYielded

\* scrape_country has raised on the fetch of page 2, after page 1 gave a row
C16_Witness ==
    /\ fut[1].state = "finished" /\ fut[1].outcome.raised
    /\ requested = <<1, 2>>
    /\ Len(plans_data) >= 1
    /\ files = <<>>

\* the positions in the received records whose record is the first with its id, or
\* has no id
FirstOccurrences ==
    {k \in 1..Len(responses) :
        responses[k].plan.id = None
            \/ \A j \in 1..(k - 1) : responses[j].plan.id # responses[k].plan.id}

\* the j-th of them in the order received
NthFirst(j) ==
    CHOOSE k \in FirstOccurrences : Cardinality({i \in FirstOccurrences : i <= k}) = j

\* the name the providers table t has for the provider id pid
NameIn(t, pid) ==
    IF pid # None /\ \E k \in 1..Len(t) : t[k].id = pid
    THEN t[CHOOSE k \in 1..Len(t) : t[k].id = pid].name
    ELSE ""

\* C17: the records are received in page order, the plans list of a page before its
\* featured list, and the stream yielded is that sequence with, for every id, all
\* occurrences but the first left out: the j-th record yielded is the j-th first
\* occurrence, from the page and the list where it first occurred.
C17_MergeOrder ==
    /\ \A a, b \in 1..Len(responses) :
          a < b => /\ responses[a].page <= responses[b].page
                   /\ (responses[a].page = responses[b].page /\ responses[a].featured)
                          => responses[b].featured
    /\ Len(yielded) = Cardinality(FirstOccurrences)
    /\ \A j \in 1..Len(yielded) :
          /\ yielded[j].plan = responses[NthFirst(j)].plan
          /\ yielded[j].provider_name =
                NameIn(responses[NthFirst(j)].providers, yielded[j].plan.provider)

\* a page gave different plans in its plans list and in its featured list and both
\* were yielded; or an id came on page 1 and again on page 2, whose providers tables
\* differ, and one record was yielded
C17_Witness ==
    /\ it_pc = "done"
    /\ Len(responses) = 2
    /\ \/ /\ ~responses[1].featured /\ responses[2].featured
          /\ responses[1].page = responses[2].page
          /\ responses[1].plan.id # responses[2].plan.id
          /\ Len(yielded) = 2 /\ yielded[2].plan = responses[2].plan
       \/ /\ responses[1].page = 1 /\ responses[2].page = 2
          /\ responses[1].plan.id = PyInt(1) /\ responses[2].plan.id = PyInt(1)
          /\ responses[1].providers # responses[2].providers
          /\ Len(yielded) = 1

\* C18: every record yielded carries the name that the providers table of the page
\* it was received on has for its provider id, and the empty string when that table
\* has no entry for the id or the record has no provider id, whatever the tables of
\* the other pages hold.
C18_ProviderOfSamePage ==
    \A j \in 1..Len(yielded) :
        LET rec == responses[NthFirst(j)] IN
        /\ yielded[j].plan = rec.plan
        /\ IF rec.plan.provider = None THEN yielded[j].provider_name = ""
           ELSE IF \A k \in 1..Len(rec.providers) : rec.providers[k].id # rec.plan.provider
                THEN yielded[j].provider_name = ""
                ELSE \E k \in 1..Len(rec.providers) :
                        /\ rec.providers[k].id = rec.plan.provider
                        /\ yielded[j].provider_name = rec.providers[k].name

\* page 1 named the provider, page 2 has an empty table, and the record of page 2
\* was yielded with the empty string; page 1 also held a record without provider id
C18_Witness ==
    /\ it_pc = "done"
    /\ Len(responses) = 2 /\ Len(yielded) = 2
    /\ responses[1].page = 1 /\ responses[2].page = 2
    /\ responses[1].providers # <<>> /\ responses[2].providers = <<>>
    /\ responses[2].plan.provider = P1
    /\ yielded[2].provider_name = ""

\* C19: when the /countries response is a list none of whose items is kept (it is
\* empty, or every item lacks a slug or a name), main starts no pipeline and returns
\* normally, so that run_scraper returns 0 (130 after a signal), with 0 successful,
\* 0 failed and 0 total plans.
C19_EmptyCatalog ==
    (api_countries.t = "list" /\ KeptItems = {} /\ MainDone) =>
        /\ fut = <<>> /\ submitted = <<>>
        /\ successful = 0 /\ failed = 0 /\ total_plans = 0
        /\ rc \in {PyInt(0), PyInt(130)}

====
